---- MODULE Spec2Model ----
(***************************************************************************)
(* State-machine model of telegram-scraper-native.                         *)
(*                                                                         *)
(*   src/src/lib.rs   the engine (ScraperEngine) behind the C boundary     *)
(*                    scraper_init / scraper_connect /                     *)
(*                    scraper_scrape_channel / scraper_free_members /      *)
(*                    scraper_destroy                                      *)
(*   src/src/main.rs  the standalone binary (NativeTelegramScraper)        *)
(*                                                                         *)
(* A behaviour is one process: either a host that drives the boundary, or  *)
(* one run of the binary.  Text allocations (CString::into_raw) are        *)
(* numbered in allocation order; a pointer is the pair of its allocation   *)
(* number and the text stored there, the null pointer has number 0.        *)
(***************************************************************************)
EXTENDS Integers, Sequences, FiniteSets, TLC

VARIABLES
    program,        \* "lib": a host drives the boundary; "cli": the binary runs;
                    \* "sweep": one scrape_channel, statement by statement;
                    \* "pool": workers that share one engine
    transport,      \* the participant-search backend behind scrape_with_pattern
    proc,           \* "running", "aborted" (panic at the boundary) or "ub"
    subscriber_set, \* the global tracing subscriber is installed
    ENGINE,         \* static mut ENGINE: NoEngine or the ScraperEngine
    next_addr,      \* number of text allocations made so far
    freed,          \* text allocations that have been released
    boxes,          \* live boxed result arrays handed to the caller
    next_box,       \* number of result arrays made so far
    result_ptr,     \* the caller's *result_ptr (0: never written)
    count_ptr,      \* the caller's *count_ptr
    call,           \* the last boundary call: operation, arguments, return code
    trace,          \* collaborator calls made by the last boundary call, in order
    hist,           \* the successful scrapes of this process, in order
    cli,            \* NativeTelegramScraper and the position of main
    sweep,          \* the locals of a running scrape_channel and its position
    pool            \* the shared engine and the position of every worker

vars == << program, transport, proc, subscriber_set, ENGINE, next_addr, freed,
           boxes, next_box, result_ptr, count_ptr, call, trace, hist, cli,
           sweep, pool >>

libvars == << proc, subscriber_set, ENGINE, next_addr, freed, boxes, next_box,
              result_ptr, count_ptr, call, trace, hist >>

-----------------------------------------------------------------------------
(* Bounds of the model *)

\* largest max_members a caller passes, besides the scenario's 70
MaxCap == 2
\* number of scrape calls that reach the sweep in one process, and number of
\* add_unique_member calls of one worker
MaxCalls == 2
\* number of workers that share the engine
MaxWorkers == 2

-----------------------------------------------------------------------------
(* Program constants *)

\* lib.rs:100  the fixed pattern sweep of the engine
patterns == << "", "a", "e", "i", "o", "u", "s", "t", "n", "r" >>

\* lib.rs:142  the stub returns min(limit, 50) records per query
StubBatch == 50

\* lib.rs:144  ids of the stub are i + pattern.len() * 1000
StubStride == 1000

\* lib.rs:121  sleep of 2 seconds after each pattern
SleepSecs == 2

-----------------------------------------------------------------------------
(* Values *)

NoEngine == [ some |-> FALSE ]

NullPtr == [ addr |-> 0, str |-> << >> ]

Min(a, b) == IF a < b THEN a ELSE b

Range(s) == { s[i] : i \in 1..Len(s) }

\* u32 arithmetic.  The integers of the model are 32 bits wide, so a u32
\* value of 2^31 or more is written as the negative integer with the same
\* bits: a - b is then the wrapping difference, and the order of two values
\* is the unsigned one
U32Sub(a, b) == a - b

U32Less(a, b) == IF (a < 0) = (b < 0) THEN a < b ELSE b < 0

U32Min(a, b) == IF U32Less(a, b) THEN a ELSE b

Ids(ms) == [ i \in 1..Len(ms) |-> ms[i].id ]

-----------------------------------------------------------------------------
(* The participant-search backend.                                         *)
(*                                                                         *)
(* "stub" is the backend the engine is built with.  A "mock" backend holds *)
(* a list of ids (or a failure) for every prefix and answers a query with  *)
(* the first `limit` ids of that list, as the stub does, or, when          *)
(* honours_limit is FALSE, with the whole list.                            *)

StubTransport == [ kind |-> "stub", table |-> << >>, honours_limit |-> TRUE ]

\* what a mock backend holds for one prefix: a list of ids, or a failure
Held(ids) == [ ok |-> TRUE, ids |-> ids ]
Fail == [ ok |-> FALSE, ids |-> << >> ]

Table(held) ==
    [ k \in 1..Len(patterns) |-> IF k <= Len(held) THEN held[k] ELSE Held(<< >>) ]

\* the backend of the overlap scenario: ids 0..49 for "" and 40..89 for "a"
ScenarioTable ==
    Table(<< Held([ i \in 1..50 |-> i - 1 ]), Held([ i \in 1..50 |-> 39 + i ]) >>)

\* batches that overlap across prefixes
OverlapTable ==
    Table(<< Held(<< 0, 1, 2 >>), Held(<< 1, 2, 3 >>), Held(<< 3, 4 >>) >>)

\* batches that repeat an id within one batch
DuplicateTable ==
    Table(<< Held(<< 0, 0, 1 >>), Held(<< 1, 1, 2, 2 >>) >>)

\* the query fails for "a" and "i" and succeeds for the other prefixes
FailingTable ==
    Table(<< Held(<< 0, 1 >>), Fail, Held(<< 1, 2 >>), Fail, Held(<< 3 >>) >>)

Mock(table, honours_limit) ==
    [ kind |-> "mock", table |-> table, honours_limit |-> honours_limit ]

MockTransports ==
    { Mock(ScenarioTable, TRUE), Mock(ScenarioTable, FALSE),
      Mock(OverlapTable, TRUE), Mock(OverlapTable, FALSE),
      Mock(DuplicateTable, FALSE), Mock(FailingTable, TRUE) }

Transports == { StubTransport } \cup MockTransports

\* ids the stub synthesizes for one query
StubSearch(pattern, limit) ==
    [ i \in 1..U32Min(limit, StubBatch) |-> (i - 1) + Len(pattern) * StubStride ]

\* answer of a mock backend to the query for prefix k
MockSearch(tr, k, limit) ==
    IF ~tr.table[k].ok
    THEN Fail
    ELSE IF tr.honours_limit
    THEN Held(SubSeq(tr.table[k].ids, 1, U32Min(limit, Len(tr.table[k].ids))))
    ELSE tr.table[k]

\* answer of the backend to one query: a failure, or the ids of the batch
search_participants(tr, k, limit) ==
    IF tr.kind = "stub"
    THEN Held(StubSearch(patterns[k], limit))
    ELSE MockSearch(tr, k, limit)

\* one TelegramMember: three fresh text allocations, phone null
NewMember(id, pattern, i, addr) ==
    [ id         |-> id,
      username   |-> [ addr |-> addr + 1, str |-> << "user_", pattern, i >> ],
      first_name |-> [ addr |-> addr + 2, str |-> << "User", i >> ],
      last_name  |-> [ addr |-> addr + 3, str |-> << "Last", i >> ],
      phone      |-> NullPtr,
      is_premium |-> (i % 10 = 0) ]

\* ScraperEngine::scrape_with_pattern: the batch of one prefix, every record
\* built with freshly allocated texts; addr is the number of allocations so far
scrape_with_pattern(tr, k, limit, addr) ==
    LET r == search_participants(tr, k, limit)
    IN  [ ok    |-> r.ok,
          batch |-> [ j \in 1..Len(r.ids) |->
                        NewMember(r.ids[j], patterns[k], j - 1, addr + 3 * (j - 1)) ] ]

-----------------------------------------------------------------------------
(* ScraperEngine *)

\* ScraperEngine::new
NewEngine ==
    [ some          |-> TRUE,
      client        |-> FALSE,
      members_cache |-> << >>,
      dedup_set     |-> { },
      is_running    |-> FALSE ]

\* add_unique_member without the membership test
add_unique_member_always(st, member) ==
    [ inserted |-> TRUE,
      st |-> [ st EXCEPT !.dedup_set = @ \cup { member.id },
                         !.members_cache = (member.id :> member) @@ @ ] ]

\* add_unique_member recording the id without storing the record
add_unique_member_uncached(st, member) ==
    IF member.id \in st.dedup_set
    THEN [ inserted |-> FALSE, st |-> st ]
    ELSE [ inserted |-> TRUE,
           st |-> [ st EXCEPT !.dedup_set = @ \cup { member.id } ] ]

\* ScraperEngine::add_unique_member on the sweep state st: the clone stored in
\* the cache is a field-wise copy, so it holds the same pointers
add_unique_member(st, member) ==
    IF member.id \in st.dedup_set
    THEN [ inserted |-> FALSE, st |-> st ]
    ELSE [ inserted |-> TRUE,
           st |-> [ st EXCEPT !.dedup_set = @ \cup { member.id },
                              !.members_cache = (member.id :> member) @@ @ ] ]

\* the inner loop without the break at the cap
RECURSIVE batch_loop_nobreak(_, _, _, _)
batch_loop_nobreak(st, batch, j, max_members) ==
    IF j > Len(batch) THEN st
    ELSE LET r == add_unique_member(st, batch[j])
         IN  IF r.inserted
             THEN batch_loop_nobreak([ r.st EXCEPT !.members = Append(@, batch[j]),
                                                   !.scraped = @ + 1 ],
                                     batch, j + 1, max_members)
             ELSE batch_loop_nobreak(r.st, batch, j + 1, max_members)

\* the inner loop of scrape_channel over one batch
RECURSIVE batch_loop(_, _, _, _)
batch_loop(st, batch, j, max_members) ==
    IF j > Len(batch) THEN st
    ELSE LET r == add_unique_member(st, batch[j])
         IN  IF r.inserted
             THEN LET st2 == [ r.st EXCEPT !.members = Append(@, batch[j]),
                                           !.scraped = @ + 1 ]
                  IN  IF st2.scraped >= max_members THEN st2
                      ELSE batch_loop(st2, batch, j + 1, max_members)
             ELSE batch_loop(r.st, batch, j + 1, max_members)

Event(ev, k, arg, ok) == [ ev |-> ev, pattern |-> k, arg |-> arg, ok |-> ok ]

\* the outer loop giving up at the first failed query
RECURSIVE pattern_loop_abort(_, _, _, _)
pattern_loop_abort(st, tr, k, max_members) ==
    IF k > Len(patterns) THEN st
    ELSE IF st.scraped >= max_members THEN st
    ELSE LET limit == U32Sub(max_members, st.scraped)
             r     == scrape_with_pattern(tr, k, limit, st.addr)
             st1   == [ st EXCEPT !.addr = @ + 3 * Len(r.batch),
                                  !.trace = Append(@, Event("search", k, limit, r.ok)) ]
         IN  IF ~r.ok THEN st1
             ELSE pattern_loop_abort(
                      [ batch_loop(st1, r.batch, 1, max_members) EXCEPT
                          !.trace = Append(@, Event("sleep", k, SleepSecs, TRUE)) ],
                      tr, k + 1, max_members)

\* the outer loop asking every prefix for max_members records
RECURSIVE pattern_loop_fulllimit(_, _, _, _)
pattern_loop_fulllimit(st, tr, k, max_members) ==
    IF k > Len(patterns) THEN st
    ELSE IF st.scraped >= max_members THEN st
    ELSE LET r     == scrape_with_pattern(tr, k, max_members, st.addr)
             st1   == [ st EXCEPT !.addr = @ + 3 * Len(r.batch),
                                  !.trace = Append(@, Event("search", k, max_members, r.ok)) ]
             st2   == IF r.ok THEN batch_loop(st1, r.batch, 1, max_members) ELSE st1
             st3   == [ st2 EXCEPT !.trace = Append(@, Event("sleep", k, SleepSecs, TRUE)) ]
         IN  pattern_loop_fulllimit(st3, tr, k + 1, max_members)

\* the outer loop waiting only after a query that succeeded
RECURSIVE pattern_loop_eager(_, _, _, _)
pattern_loop_eager(st, tr, k, max_members) ==
    IF k > Len(patterns) THEN st
    ELSE IF st.scraped >= max_members THEN st
    ELSE LET limit == U32Sub(max_members, st.scraped)
             r     == scrape_with_pattern(tr, k, limit, st.addr)
             st1   == [ st EXCEPT !.addr = @ + 3 * Len(r.batch),
                                  !.trace = Append(@, Event("search", k, limit, r.ok)) ]
         IN  IF ~r.ok THEN pattern_loop_eager(st1, tr, k + 1, max_members)
             ELSE pattern_loop_eager(
                      [ batch_loop(st1, r.batch, 1, max_members) EXCEPT
                          !.trace = Append(@, Event("sleep", k, SleepSecs, TRUE)) ],
                      tr, k + 1, max_members)

\* the outer loop of scrape_channel from pattern k on
RECURSIVE pattern_loop(_, _, _, _)
pattern_loop(st, tr, k, max_members) ==
    IF k > Len(patterns) THEN st
    ELSE IF st.scraped >= max_members THEN st
    ELSE LET limit == U32Sub(max_members, st.scraped)
             r     == scrape_with_pattern(tr, k, limit, st.addr)
             st1   == [ st EXCEPT !.addr = @ + 3 * Len(r.batch),
                                  !.trace = Append(@, Event("search", k, limit, r.ok)) ]
             st2   == IF r.ok THEN batch_loop(st1, r.batch, 1, max_members) ELSE st1
             st3   == [ st2 EXCEPT !.trace = Append(@, Event("sleep", k, SleepSecs, TRUE)) ]
         IN  pattern_loop(st3, tr, k + 1, max_members)

\* a lookup that resolves every name to a channel
resolve_username_any(target) == "chat"

\* Client::resolve_username for the targets of the model
resolve_username(target) ==
    CASE target = "chan"  -> "chat"
      [] target = "ghost" -> "none"
      [] OTHER            -> "err"

\* scrape_channel without the test for a connected client
scrape_channel_unchecked(engine, tr, target, max_members, addr) ==
    LET res == resolve_username(target)
        t0  == << Event("resolve", 0, 0, res = "chat") >>
    IN  IF res # "chat"
        THEN [ ok |-> FALSE, members |-> << >>, engine |-> engine, addr |-> addr, trace |-> t0 ]
        ELSE LET st0 == [ members |-> << >>, scraped |-> 0, addr |-> addr, trace |-> t0,
                          dedup_set |-> engine.dedup_set,
                          members_cache |-> engine.members_cache ]
                 st  == pattern_loop(st0, tr, 1, max_members)
             IN  [ ok |-> TRUE, members |-> st.members,
                   engine |-> [ engine EXCEPT !.dedup_set = st.dedup_set,
                                              !.members_cache = st.members_cache ],
                   addr |-> st.addr, trace |-> st.trace ]

\* ScraperEngine::scrape_channel
scrape_channel(engine, tr, target, max_members, addr) ==
    IF ~engine.client
    THEN [ ok |-> FALSE, members |-> << >>, engine |-> engine, addr |-> addr, trace |-> << >> ]
    ELSE LET res == resolve_username(target)
             t0  == << Event("resolve", 0, 0, res = "chat") >>
         IN  IF res # "chat"
             THEN [ ok |-> FALSE, members |-> << >>, engine |-> engine, addr |-> addr, trace |-> t0 ]
             ELSE LET st0 == [ members |-> << >>, scraped |-> 0, addr |-> addr, trace |-> t0,
                               dedup_set |-> engine.dedup_set,
                               members_cache |-> engine.members_cache ]
                      st  == pattern_loop(st0, tr, 1, max_members)
                  IN  [ ok |-> TRUE, members |-> st.members,
                        engine |-> [ engine EXCEPT !.dedup_set = st.dedup_set,
                                                   !.members_cache = st.members_cache ],
                        addr |-> st.addr, trace |-> st.trace ]

-----------------------------------------------------------------------------
(* Arguments a host passes through the boundary *)

\* a pointer to bytes that are not valid UTF-8, and the null pointer
BadUtf8 == "<invalid utf-8>"
NullArg == "<null>"

Targets == { "chan", "ghost", "down" }
TargetArgs == Targets \cup { BadUtf8, NullArg }
ConnectOutcomes == { "ok", "session_error", "connection_failed" }

\* values of max_members: the small ones and the 70 of the overlap scenario
Caps == (0..MaxCap) \cup { 70 }

\* a boundary call and its return code; -1: the call did not return
Call(op, ret) == [ op |-> op, ret |-> ret ]

\* the calls a host makes: at most one argument of a call is malformed
ConnectCalls ==
    { << "text", "text", o >> : o \in ConnectOutcomes }
        \cup { << a, "text", "ok" >> : a \in { BadUtf8, NullArg } }
        \cup { << "text", f, "ok" >> : f \in { BadUtf8, NullArg } }

ScrapeCalls ==
    { << t, m, FALSE, FALSE >> : t \in TargetArgs, m \in Caps }
        \cup { << "chan", m, TRUE, FALSE >> : m \in Caps }
        \cup { << "chan", m, FALSE, TRUE >> : m \in Caps }

\* non-null text pointers of one record
TextAddrs(m) ==
    { p.addr : p \in { m.username, m.first_name, m.last_name, m.phone } } \ { 0 }

\* the process stops being a running program (an abort, or undefined
\* behaviour): nothing of its memory is observed any more, the model clears it
Dies(outcomes, c) ==
    /\ proc' \in outcomes
    /\ call' = c
    /\ subscriber_set' = FALSE
    /\ ENGINE' = NoEngine
    /\ next_addr' = 0
    /\ freed' = { }
    /\ boxes' = << >>
    /\ next_box' = 0
    /\ result_ptr' = 0
    /\ count_ptr' = 0
    /\ trace' = << >>
    /\ hist' = << >>

\* a boundary call that returns without touching the program's memory
Returns(c) ==
    /\ call' = c
    /\ trace' = << >>
    /\ UNCHANGED << proc, subscriber_set, ENGINE, next_addr, freed, boxes, next_box,
                    result_ptr, count_ptr, hist >>

-----------------------------------------------------------------------------
(* The boundary (lib.rs:173-278) *)

\* scraper_init: installing the tracing subscriber panics when one is already
\* installed; the panic leaves an extern "C" function
scraper_init ==
    /\ program = "lib" /\ proc = "running"
    /\ UNCHANGED << program, transport, cli, sweep, pool >>
    /\ IF subscriber_set
       THEN Dies({ "aborted", "ub" }, Call("init", -1))
       ELSE /\ subscriber_set' = TRUE
            /\ ENGINE' = NewEngine
            /\ call' = Call("init", 1)
            /\ trace' = << >>
            /\ UNCHANGED << proc, next_addr, freed, boxes, next_box,
                            result_ptr, count_ptr, hist >>

\* a connect that starts from a fresh engine
connect_fresh(engine, outcome) ==
    IF outcome = "ok"
    THEN [ ok |-> TRUE, engine |-> [ NewEngine EXCEPT !.client = TRUE ] ]
    ELSE [ ok |-> FALSE, engine |-> NewEngine ]

\* ScraperEngine::connect: the session file and the network decide the outcome
connect(engine, outcome) ==
    IF outcome = "ok"
    THEN [ ok |-> TRUE, engine |-> [ engine EXCEPT !.client = TRUE ] ]
    ELSE [ ok |-> FALSE, engine |-> engine ]

\* scraper_connect
scraper_connect(api_hash, session_file, outcome) ==
    /\ program = "lib" /\ proc = "running"
    /\ UNCHANGED << program, transport, cli, sweep, pool >>
    /\     IF ~ENGINE.some
           THEN Returns(Call("connect", 0))
           ELSE IF api_hash = NullArg
           THEN Dies({ "ub" }, Call("connect", -1))
           ELSE IF api_hash = BadUtf8
           THEN Returns(Call("connect", 0))
           ELSE IF session_file = NullArg
           THEN Dies({ "ub" }, Call("connect", -1))
           ELSE IF session_file = BadUtf8
           THEN Returns(Call("connect", 0))
           ELSE LET r == connect(ENGINE, outcome)
                IN  /\ ENGINE' = r.engine
                    /\ call' = Call("connect", IF r.ok THEN 1 ELSE 0)
                    /\ trace' = << >>
                    /\ UNCHANGED << proc, subscriber_set, next_addr, freed, boxes,
                                    next_box, result_ptr, count_ptr, hist >>

\* scraper_scrape_channel; rp_null / cp_null: result_ptr / count_ptr is null
scraper_scrape_channel(target, max_members, rp_null, cp_null) ==
    /\ program = "lib" /\ proc = "running"
    /\ UNCHANGED << program, transport, cli, sweep, pool >>
    /\ LET c(ret) == Call("scrape", ret)
       IN  IF ~ENGINE.some
           THEN Returns(c(0))
           ELSE IF target = NullArg
           THEN Dies({ "ub" }, c(-1))
           ELSE IF target = BadUtf8
           THEN Returns(c(0))
           ELSE LET r == scrape_channel(ENGINE, transport, target, max_members, next_addr)
                IN  IF ~r.ok
                    THEN /\ call' = c(0)
                         /\ trace' = r.trace
                         /\ UNCHANGED << proc, subscriber_set, ENGINE, next_addr, freed,
                                         boxes, next_box, result_ptr, count_ptr, hist >>
                    ELSE /\ Len(hist) < MaxCalls
                         /\ IF rp_null \/ cp_null
                            THEN Dies({ "ub" }, c(-1))
                            ELSE /\ ENGINE' = r.engine
                                 /\ next_addr' = r.addr
                                 /\ trace' = r.trace
                                 /\ hist' = Append(hist, [ target |-> target,
                                                           max_members |-> max_members,
                                                           members |-> r.members,
                                                           pre |-> ENGINE.dedup_set ])
                                 /\ next_box' = next_box + 1
                                 /\ boxes' = ((next_box + 1) :> r.members) @@ boxes
                                 /\ result_ptr' = next_box + 1
                                 /\ count_ptr' = Len(r.members)
                                 /\ call' = c(1)
                                 /\ UNCHANGED << proc, subscriber_set, freed >>

\* scraper_free_members on a result the caller holds
scraper_free_members(b) ==
    /\ program = "lib" /\ proc = "running"
    /\ b \in DOMAIN boxes
    /\ freed' = freed \cup UNION { TextAddrs(m) : m \in Range(boxes[b]) }
    /\ boxes' = [ x \in DOMAIN boxes \ { b } |-> boxes[x] ]
    /\ call' = Call("free", 1)
    /\ trace' = << >>
    /\ UNCHANGED << program, transport, cli, sweep, pool, proc, subscriber_set, ENGINE, next_addr,
                    next_box, result_ptr, count_ptr, hist >>

\* scraper_free_members(null, count)
scraper_free_null ==
    /\ program = "lib" /\ proc = "running"
    /\ Returns(Call("free", 1))
    /\ UNCHANGED << program, transport, cli, sweep, pool >>

\* scraper_destroy: dropping the engine drops the cache records, whose raw
\* pointers own nothing
scraper_destroy ==
    /\ program = "lib" /\ proc = "running"
    /\ ENGINE' = NoEngine
    /\ call' = Call("destroy", 1)
    /\ trace' = << >>
    /\ UNCHANGED << program, transport, cli, sweep, pool, proc, subscriber_set, next_addr, freed,
                    boxes, next_box, result_ptr, count_ptr, hist >>

-----------------------------------------------------------------------------
(* The standalone binary (main.rs) *)

\* main.rs:61  the pattern list of the binary
cli_patterns == << "", "a", "e", "i", "o", "u", "s", "t", "n", "r",
                   "l", "c", "h", "d", "p" >>

\* main.rs:71  at most 50 records per pattern
CliBatch == 50

\* main.rs:74  ids are i * 1000 + j
CliStride == 1000

\* main.rs:96  sleep of 100 milliseconds after each pattern
CliSleepMillis == 100

None == << >>

\* main.rs:73-82  the record synthesized for pattern i (from 0), position j
CliMember(i, j, target) ==
    [ id           |-> i * CliStride + j,
      username     |-> << "user_", cli_patterns[i + 1], "_", j >>,
      first_name   |-> << "User", j >>,
      last_name    |-> << "Last", j >>,
      phone        |-> IF j % 5 = 0 THEN << "+1", j >> ELSE None,
      is_premium   |-> (j % 10 = 0),
      source_group |-> target ]

\* main.rs:72-93  the inner loop over one batch
RECURSIVE cli_batch_loop(_, _, _, _, _, _)
cli_batch_loop(st, i, j, batch_size, target, max_members) ==
    IF j >= batch_size THEN st
    ELSE LET member == CliMember(i, j, target)
         IN  IF member.id \notin DOMAIN st.members_cache
             THEN LET st2 == [ st EXCEPT !.members_cache = (member.id :> member) @@ @,
                                         !.members = Append(@, member) ]
                  IN  IF Len(st2.members) >= max_members THEN st2
                      ELSE cli_batch_loop(st2, i, j + 1, batch_size, target, max_members)
             ELSE cli_batch_loop(st, i, j + 1, batch_size, target, max_members)

\* main.rs:63-97  the outer loop from pattern i (from 0) on
RECURSIVE cli_pattern_loop(_, _, _, _)
cli_pattern_loop(st, i, target, max_members) ==
    IF i >= Len(cli_patterns) THEN st
    ELSE IF Len(st.members) >= max_members THEN st
    ELSE LET batch_size == U32Min(CliBatch, U32Sub(max_members, Len(st.members)))
             st1 == [ st EXCEPT !.trace = Append(@, Event("search", i + 1, batch_size, TRUE)) ]
             st2 == cli_batch_loop(st1, i, 0, batch_size, target, max_members)
             st3 == [ st2 EXCEPT !.trace = Append(@, Event("sleep", i + 1, CliSleepMillis, TRUE)) ]
         IN  cli_pattern_loop(st3, i + 1, target, max_members)

\* NativeTelegramScraper::new, and main before the scrape
CliInit ==
    [ pc |-> "start", target |-> "", max_members |-> 0, members_cache |-> << >>,
      total_scraped |-> 0, members |-> << >>, trace |-> << >> ]

\* NativeTelegramScraper::scrape_channel, called once by main
cli_scrape_channel(target, max_members) ==
    /\ program = "cli" /\ cli.pc = "start"
    /\ LET st0 == [ members |-> << >>, members_cache |-> cli.members_cache, trace |-> << >> ]
           st  == cli_pattern_loop(st0, 0, target, max_members)
       IN  cli' = [ pc |-> "scraped", target |-> target, max_members |-> max_members,
                    members_cache |-> st.members_cache,
                    total_scraped |-> Len(st.members),
                    members |-> st.members, trace |-> st.trace ]
    /\ UNCHANGED << program, transport, sweep, pool >>
    /\ UNCHANGED libvars

\* NativeTelegramScraper::export_results: writing the files may fail, and
\* main then returns the error
cli_export_results(written) ==
    /\ program = "cli" /\ cli.pc = "scraped"
    /\ cli' = [ cli EXCEPT !.pc = IF written THEN "exported" ELSE "failed" ]
    /\ UNCHANGED << program, transport, sweep, pool >>
    /\ UNCHANGED libvars

\* NativeTelegramScraper::show_performance_stats, then main returns
cli_show_performance_stats ==
    /\ program = "cli" /\ cli.pc = "exported"
    /\ cli' = [ cli EXCEPT !.pc = "done" ]
    /\ UNCHANGED << program, transport, sweep, pool >>
    /\ UNCHANGED libvars

-----------------------------------------------------------------------------
(* scrape_channel, statement by statement (lib.rs:85-126) *)

(*                                                                         *)
(* The engine is connected.  sweep holds the locals of the call (members,  *)
(* scraped, the loop positions k and j, the batch being read), the         *)
(* engine's collections, and the engine as the call found it (pre).        *)

\* a connected engine on which no scrape_channel has run
SweepIdle ==
    [ pc |-> "idle", calls |-> 0, ret |-> -1, target |-> "", max_members |-> 0,
      k |-> 0, j |-> 0, batch |-> << >>, members |-> << >>, scraped |-> 0,
      addr |-> 0, trace |-> << >>, dedup_set |-> { }, members_cache |-> << >>,
      pre |-> [ dedup_set |-> { }, members_cache |-> << >>, addr |-> 0 ] ]

\* the calls of the model: a channel with every cap, and the two targets that
\* do not resolve
SweepCalls ==
    { << "chan", m >> : m \in Caps } \cup { << "ghost", 1 >>, << "down", 1 >> }

SweepUnchanged ==
    /\ UNCHANGED << program, transport, cli, pool >>
    /\ UNCHANGED libvars

\* lib.rs:85-87  scrape_channel is called and finds the client
sweep_call(target, max_members) ==
    /\ program = "sweep"
    /\ sweep.pc \in { "idle", "returned" }
    /\ sweep.calls < MaxCalls
    /\ sweep' = [ sweep EXCEPT
                     !.pc = "resolve", !.calls = @ + 1, !.ret = -1,
                     !.target = target, !.max_members = max_members,
                     !.k = 0, !.j = 0, !.batch = << >>, !.members = << >>,
                     !.scraped = 0, !.trace = << >>,
                     !.pre = [ dedup_set |-> sweep.dedup_set,
                               members_cache |-> sweep.members_cache,
                               addr |-> sweep.addr ] ]
    /\ SweepUnchanged

\* lib.rs:89-100  the target is resolved, or the call returns the error
sweep_resolve ==
    /\ program = "sweep"
    /\ sweep.pc = "resolve"
    /\ LET res == resolve_username(sweep.target)
       IN  sweep' = [ sweep EXCEPT
                        !.trace = << Event("resolve", 0, 0, res = "chat") >>,
                        !.pc = IF res = "chat" THEN "head" ELSE "returned",
                        !.ret = IF res = "chat" THEN -1 ELSE 0,
                        !.k = 1 ]
    /\ SweepUnchanged

\* the head of the outer loop without the test of the cap
sweep_head_nocap ==
    /\ program = "sweep"
    /\ sweep.pc = "head"
    /\ sweep' = [ sweep EXCEPT !.pc = IF sweep.k > Len(patterns) THEN "tail" ELSE "query" ]
    /\ SweepUnchanged

\* lib.rs:102-103  the head of the outer loop
sweep_head ==
    /\ program = "sweep"
    /\ sweep.pc = "head"
    /\ sweep' = [ sweep EXCEPT !.pc =
                     IF sweep.k > Len(patterns) \/ sweep.scraped >= sweep.max_members
                     THEN "tail" ELSE "query" ]
    /\ SweepUnchanged

\* lib.rs:107, 117  the query of pattern k
sweep_query ==
    /\ program = "sweep"
    /\ sweep.pc = "query"
    /\ LET limit == U32Sub(sweep.max_members, sweep.scraped)
           r     == scrape_with_pattern(transport, sweep.k, limit, sweep.addr)
       IN  sweep' = [ sweep EXCEPT
                        !.addr = @ + 3 * Len(r.batch),
                        !.trace = Append(@, Event("search", sweep.k, limit, r.ok)),
                        !.batch = r.batch, !.j = 1,
                        !.pc = IF r.ok THEN "batch" ELSE "sleep" ]
    /\ SweepUnchanged

\* lib.rs:109-115  one turn of the inner loop
sweep_member ==
    /\ program = "sweep"
    /\ sweep.pc = "batch"
    /\ IF sweep.j > Len(sweep.batch)
       THEN sweep' = [ sweep EXCEPT !.pc = "sleep" ]
       ELSE LET r == add_unique_member(sweep, sweep.batch[sweep.j])
            IN  IF r.inserted
                THEN sweep' = [ r.st EXCEPT
                                  !.members = Append(@, sweep.batch[sweep.j]),
                                  !.scraped = @ + 1,
                                  !.j = @ + 1,
                                  !.pc = IF sweep.scraped + 1 >= sweep.max_members
                                         THEN "sleep" ELSE "batch" ]
                ELSE sweep' = [ r.st EXCEPT !.j = @ + 1 ]
    /\ SweepUnchanged

\* a wait that moves on by two patterns
sweep_sleep_skip ==
    /\ program = "sweep"
    /\ sweep.pc = "sleep"
    /\ sweep' = [ sweep EXCEPT
                     !.trace = Append(@, Event("sleep", sweep.k, SleepSecs, TRUE)),
                     !.k = @ + 2, !.j = 0, !.batch = << >>, !.pc = "head" ]
    /\ SweepUnchanged

\* lib.rs:121  the wait, and on to the next pattern
sweep_sleep ==
    /\ program = "sweep"
    /\ sweep.pc = "sleep"
    /\ sweep' = [ sweep EXCEPT
                     !.trace = Append(@, Event("sleep", sweep.k, SleepSecs, TRUE)),
                     !.k = @ + 1, !.j = 0, !.batch = << >>, !.pc = "head" ]
    /\ SweepUnchanged

\* lib.rs:124-125  Ok(members)
sweep_return ==
    /\ program = "sweep"
    /\ sweep.pc = "tail"
    /\ sweep' = [ sweep EXCEPT !.pc = "returned", !.ret = 1 ]
    /\ SweepUnchanged

-----------------------------------------------------------------------------
(* add_unique_member called by concurrent workers (lib.rs:161-170) *)

(*                                                                         *)
(* The method takes &self, and the engine keeps dedup_set behind a mutex  *)
(* and members_cache in a concurrent map.  Each worker runs the method    *)
(* statement by statement; pool.dedup_lock is the worker that holds the   *)
(* mutex (0: nobody), pool.returned the calls that have returned.         *)

Workers == 1..MaxWorkers

\* the ids the workers' records carry
PoolIds == { 0, 1 }

\* a fresh engine, and no worker has called yet
PoolIdle ==
    [ dedup_lock    |-> 0,
      dedup_set     |-> { },
      members_cache |-> << >>,
      returned      |-> { },
      w             |-> [ x \in Workers |-> [ pc |-> "idle", n |-> 0, id |-> 0 ] ] ]

\* the record of the n-th call of worker x
PoolMember(x, n, id) == [ id |-> id, by |-> << x, n >> ]

PoolUnchanged ==
    /\ UNCHANGED << program, transport, cli, sweep >>
    /\ UNCHANGED libvars

\* worker x calls add_unique_member(&member) with a record of its own
pool_call(x, id) ==
    /\ program = "pool"
    /\ pool.w[x].pc = "idle"
    /\ pool.w[x].n < MaxCalls
    /\ pool' = [ pool EXCEPT !.w[x] = [ pc |-> "lock", n |-> @.n + 1, id |-> id ] ]
    /\ PoolUnchanged

\* a lock that is taken whoever holds the mutex
pool_lock_unguarded(x) ==
    /\ program = "pool"
    /\ pool.w[x].pc = "lock"
    /\ pool' = [ pool EXCEPT !.dedup_lock = x, !.w[x].pc = "contains" ]
    /\ PoolUnchanged

\* lib.rs:162  self.dedup_set.lock(): blocks while another worker holds it
pool_lock(x) ==
    /\ program = "pool"
    /\ pool.w[x].pc = "lock"
    /\ pool.dedup_lock = 0
    /\ pool' = [ pool EXCEPT !.dedup_lock = x, !.w[x].pc = "contains" ]
    /\ PoolUnchanged

\* lib.rs:163-164  dedup.contains(&member.id): the call is about to return false
pool_contains(x) ==
    /\ program = "pool"
    /\ pool.w[x].pc = "contains"
    /\ pool' = [ pool EXCEPT !.w[x].pc =
                    IF pool.w[x].id \in pool.dedup_set THEN "false" ELSE "insert" ]
    /\ PoolUnchanged

\* lib.rs:166  dedup.insert(member.id)
pool_insert(x) ==
    /\ program = "pool"
    /\ pool.w[x].pc = "insert"
    /\ pool' = [ pool EXCEPT !.dedup_set = @ \cup { pool.w[x].id },
                              !.w[x].pc = "store" ]
    /\ PoolUnchanged

\* lib.rs:167-168  self.members_cache.insert(member.id, member.clone()); an
\* insert under a key that is present replaces the record
pool_store(x) ==
    /\ program = "pool"
    /\ pool.w[x].pc = "store"
    /\ LET member == PoolMember(x, pool.w[x].n, pool.w[x].id)
       IN  pool' = [ pool EXCEPT
                       !.members_cache =
                           [ i \in DOMAIN @ \cup { member.id } |->
                               IF i = member.id THEN member ELSE @[i] ],
                       !.w[x].pc = "true" ]
    /\ PoolUnchanged

\* lib.rs:170  the guard is dropped and the call returns
pool_return(x) ==
    /\ program = "pool"
    /\ pool.w[x].pc \in { "true", "false" }
    /\ pool' = [ pool EXCEPT
                    !.dedup_lock = IF @ = x THEN 0 ELSE @,
                    !.returned = @ \cup { [ member |-> PoolMember(x, pool.w[x].n, pool.w[x].id),
                                            ret |-> (pool.w[x].pc = "true") ] },
                    !.w[x].pc = "idle" ]
    /\ PoolUnchanged

-----------------------------------------------------------------------------
(* Specification *)

\* the memory of a process that has just started
Boot ==
    /\ proc = "running"
    /\ subscriber_set = FALSE
    /\ ENGINE = NoEngine
    /\ next_addr = 0
    /\ freed = { }
    /\ boxes = << >>
    /\ next_box = 0
    /\ result_ptr = 0
    /\ count_ptr = 0
    /\ call = Call("start", 1)
    /\ trace = << >>
    /\ hist = << >>
    /\ cli = CliInit
    /\ sweep = SweepIdle
    /\ pool = PoolIdle

Init ==
    /\ program \in { "lib", "cli" }
    /\ transport \in IF program = "lib" THEN Transports ELSE { StubTransport }
    /\ Boot

Next ==
    \/ scraper_init
    \/ \E c \in ConnectCalls : scraper_connect(c[1], c[2], c[3])
    \/ \E c \in ScrapeCalls : scraper_scrape_channel(c[1], c[2], c[3], c[4])
    \/ \E b \in DOMAIN boxes : scraper_free_members(b)
    \/ scraper_free_null
    \/ scraper_destroy
    \/ \E t \in Targets, m \in Caps : cli_scrape_channel(t, m)
    \/ \E w \in BOOLEAN : cli_export_results(w)
    \/ cli_show_performance_stats

Spec == Init /\ [][Next]_vars

\* one scrape_channel after the other on a connected engine, statement by
\* statement, and the binary
SweepInit ==
    /\ program \in { "sweep", "cli" }
    /\ transport \in IF program = "sweep" THEN Transports ELSE { StubTransport }
    /\ Boot

SweepNext ==
    \/ \E c \in SweepCalls : sweep_call(c[1], c[2])
    \/ sweep_resolve
    \/ sweep_head
    \/ sweep_query
    \/ sweep_member
    \/ sweep_sleep
    \/ sweep_return
    \/ \E t \in Targets, m \in Caps : cli_scrape_channel(t, m)
    \/ \E w \in BOOLEAN : cli_export_results(w)
    \/ cli_show_performance_stats

\* the statements of a call that has begun: the task that runs the call is
\* driven to completion by block_on, a wait ends, and the backends of the
\* model answer every query
SweepRun ==
    \/ sweep_resolve
    \/ sweep_head
    \/ sweep_query
    \/ sweep_member
    \/ sweep_sleep
    \/ sweep_return
    \/ \E t \in Targets, m \in Caps : cli_scrape_channel(t, m)

SweepSpec == SweepInit /\ [][SweepNext]_vars /\ WF_vars(SweepRun)

\* workers that call add_unique_member on one engine
PoolInit ==
    /\ program = "pool"
    /\ transport = StubTransport
    /\ Boot

PoolNext ==
    \/ \E x \in Workers, id \in PoolIds : pool_call(x, id)
    \/ \E x \in Workers : pool_lock(x)
    \/ \E x \in Workers : pool_contains(x)
    \/ \E x \in Workers : pool_insert(x)
    \/ \E x \in Workers : pool_store(x)
    \/ \E x \in Workers : pool_return(x)

PoolSpec == PoolInit /\ [][PoolNext]_vars

\* the program as built: the engine with its stub backend, and the binary
StubInit == Init /\ transport = StubTransport

StubSpec == StubInit /\ [][Next]_vars

TypeOK ==
    /\ program \in { "lib", "cli", "sweep", "pool" }
    /\ proc \in { "running", "aborted", "ub" }
    /\ subscriber_set \in BOOLEAN
    /\ next_addr \in Nat
    /\ freed \subseteq 1..next_addr
    /\ DOMAIN boxes \subseteq 1..next_box
    /\ Len(hist) <= MaxCalls

-----------------------------------------------------------------------------
(* Vocabulary of the claims *)

\* the last boundary call was a scrape that returned success
ScrapeReturned == program = "lib" /\ proc = "running" /\ call = Call("scrape", 1)

\* the last successful scrape: target, max_members, returned records, and the
\* dedup set the call started from
Last == hist[Len(hist)]

\* the binary has run its scrape
CliScraped == program = "cli" /\ cli.pc # "start"

Take(s, n) == SubSeq(s, 1, Min(n, Len(s)))

\* the participant searches of a trace, and those that succeeded
Searches(tr) == SelectSeq(tr, LAMBDA e : e.ev = "search")
Succeeded(tr) == SelectSeq(tr, LAMBDA e : e.ev = "search" /\ e.ok)

\* what the sweep of the last scrape met, batch by batch: for every search
\* that succeeded, the ids the backend answered, with the prefix and position
Encountered ==
    LET ss == Succeeded(trace)
    IN  [ n \in 1..Len(ss) |->
            LET ids == search_participants(transport, ss[n].pattern, ss[n].arg).ids
            IN  [ j \in 1..Len(ids) |->
                    [ id |-> ids[j], pattern |-> ss[n].pattern, pos |-> j - 1 ] ] ]

\* what the sweep of the binary generated, batch by batch
CliEncountered ==
    LET ss == Searches(cli.trace)
    IN  [ n \in 1..Len(ss) |->
            [ j \in 1..ss[n].arg |->
                [ id |-> (ss[n].pattern - 1) * CliStride + (j - 1),
                  pattern |-> ss[n].pattern, pos |-> j - 1 ] ] ]

\* the items of batch b from position j on whose id is new, added to acc
RECURSIVE FirstSeenIn(_, _, _)
FirstSeenIn(b, j, acc) ==
    IF j > Len(b) THEN acc
    ELSE IF b[j].id \in acc.seen THEN FirstSeenIn(b, j + 1, acc)
    ELSE FirstSeenIn(b, j + 1, [ seen  |-> acc.seen \cup { b[j].id },
                                 items |-> Append(acc.items, b[j]) ])

RECURSIVE FirstSeenFrom(_, _, _)
FirstSeenFrom(bs, n, acc) ==
    IF n > Len(bs) THEN acc
    ELSE FirstSeenFrom(bs, n + 1, FirstSeenIn(bs[n], 1, acc))

\* the first occurrence of every id of the batches bs that is not in seen,
\* in the order of the sweep
FirstSeen(bs, seen) == FirstSeenFrom(bs, 1, [ seen |-> seen, items |-> << >> ]).items

NoRepeat(ids) == Cardinality(Range(ids)) = Len(ids)

\* record m carries the texts the engine builds for the item e of a batch
BuiltFrom(m, e) ==
    /\ m.id = e.id
    /\ m.username.str = << "user_", patterns[e.pattern], e.pos >>
    /\ m.first_name.str = << "User", e.pos >>
    /\ m.last_name.str = << "Last", e.pos >>

-----------------------------------------------------------------------------
(* C1  Dedup correctness.  The records a scrape call returns carry pairwise  *)
(* different ids, and the record returned for an id is the first record    *)
(* with that id that the sweep of that call met; the same for the binary.  *)

C1_DedupCorrectness ==
    /\ ScrapeReturned =>
         LET first == FirstSeen(Encountered, { })
         IN  /\ NoRepeat(Ids(Last.members))
             /\ \A i \in 1..Len(Last.members) :
                  \E n \in 1..Len(first) : BuiltFrom(Last.members[i], first[n])
    /\ CliScraped =>
         LET first == FirstSeen(CliEncountered, { })
         IN  /\ NoRepeat(Ids(cli.members))
             /\ \A i \in 1..Len(cli.members) :
                  \E n \in 1..Len(first) :
                      cli.members[i] = CliMember(first[n].pattern - 1, first[n].pos, cli.target)

\* a scrape that met an id twice, in different prefixes, and returned it
C1_Witness ==
    /\ ScrapeReturned
    /\ \E a, b \in 1..Len(Encountered) :
         /\ a < b
         /\ \E x \in Range(Encountered[a]), y \in Range(Encountered[b]) :
              x.id = y.id /\ x.id \in Range(Ids(Last.members))

-----------------------------------------------------------------------------
(* C2  Cap enforcement, upper bound.  A successful scrape returns at most  *)
(* max_members records; the count written through count_ptr is the number  *)
(* of records of the array written through result_ptr, and at most         *)
(* max_members; the binary returns at most max_members records.            *)

C2_CapUpperBound ==
    /\ ScrapeReturned =>
         /\ Len(Last.members) <= Last.max_members
         /\ result_ptr \in DOMAIN boxes
         /\ boxes[result_ptr] = Last.members
         /\ count_ptr = Len(boxes[result_ptr])
         /\ count_ptr <= Last.max_members
    /\ CliScraped =>
         /\ Len(cli.members) <= cli.max_members
         /\ cli.total_scraped = Len(cli.members)

\* a scrape that filled the cap from a batch longer than the cap
C2_Witness ==
    /\ ScrapeReturned
    /\ Last.max_members > 0
    /\ count_ptr = Last.max_members
    /\ \E n \in 1..Len(trace) :
         /\ trace[n].ev = "search" /\ trace[n].ok
         /\ Len(search_participants(transport, trace[n].pattern, trace[n].arg).ids)
              > Last.max_members

-----------------------------------------------------------------------------
(* C3  Cap enforcement, exactness.  Whenever the backend can supply at      *)
(* least max_members distinct ids over the sweep, a successful scrape      *)
(* returns exactly max_members records, on every call of a connected       *)
(* engine.  The engine does not: ids stored by an earlier call are         *)
(* rejected as duplicates and are not returned again.                      *)

\* the distinct ids the backend holds over the whole sweep
Supply(tr) ==
    UNION { Range(search_participants(tr, k, StubBatch * Len(patterns)).ids) :
              k \in 1..Len(patterns) }

C3_CapExactness ==
    (ScrapeReturned /\ Cardinality(Supply(transport)) >= Last.max_members)
        => Len(Last.members) = Last.max_members

-----------------------------------------------------------------------------
(* C4  Copy-on-export ownership.  Every text field of a record handed to    *)
(* the caller is another allocation than the same field of the record the  *)
(* cache keeps, and no record of the cache points to released memory.      *)
(* The engine stores a field-wise clone, which shares the pointers.        *)

CacheAddrs ==
    IF ENGINE.some
    THEN UNION { TextAddrs(ENGINE.members_cache[id]) : id \in DOMAIN ENGINE.members_cache }
    ELSE { }

C4_CopyOnExport ==
    (program = "lib" /\ proc = "running") =>
        /\ \A b \in DOMAIN boxes : \A m \in Range(boxes[b]) :
             TextAddrs(m) \cap CacheAddrs = { }
        /\ CacheAddrs \cap freed = { }

-----------------------------------------------------------------------------
(* C5  No leak.  Once every result has been passed to free, every text      *)
(* allocation made by the scrapes has been released or is held by the      *)
(* engine.  The engine drops the records it rejects as duplicates, or      *)
(* leaves behind at the cap, without releasing their texts.                *)

C5_NoLeak ==
    (program = "lib" /\ proc = "running" /\ boxes = << >>) =>
        (1..next_addr) \ freed \subseteq CacheAddrs

-----------------------------------------------------------------------------
(* C7  Order determinism.  Two scrape calls of one process with the same    *)
(* target and the same max_members return the same ids in the same order.  *)
(* On one engine the second call skips what the first one stored.          *)

C7_OrderDeterminism ==
    \A i, j \in 1..Len(hist) :
        (hist[i].target = hist[j].target /\ hist[i].max_members = hist[j].max_members)
            => Ids(hist[i].members) = Ids(hist[j].members)

-----------------------------------------------------------------------------
(* C6  Boundary state machine.  connect and scrape called while no engine   *)
(* exists (before init, or after destroy) return 0, whatever their         *)
(* arguments; scrape called with a non-null target on an engine that never *)
(* connected returns 0; none of these calls changes the engine, the        *)
(* caller's result pointer and count, or any allocation, and the process   *)
(* keeps running.                                                          *)

Untouched ==
    UNCHANGED << proc, subscriber_set, ENGINE, next_addr, freed, boxes, next_box,
                 result_ptr, count_ptr, hist >>

-----------------------------------------------------------------------------
(* C8  Partial-failure tolerance.  A scrape that has issued a search        *)
(* returns success whichever searches failed; it has queried the prefixes  *)
(* in order, each once, and all of them unless the cap was reached; and    *)
(* its result is, in first-seen order and up to the cap, the records of    *)
(* the successful searches whose id was new to the engine.                 *)

-----------------------------------------------------------------------------
(* C9  Overlap scenario.  Fresh connected engine, backend holding ids       *)
(* 0..49 for "" and 40..89 for "a", max_members = 70.                      *)

ScenarioRun ==
    /\ ScrapeReturned
    /\ transport.kind = "mock" /\ transport.table = ScenarioTable
    /\ Last.pre = { }
    /\ Last.max_members = 70

\* as claimed: 70 records 0..69, "a" being queried with limit 20 and the cap
\* stopping the sweep there
C9_OverlapScenarioAsClaimed ==
    ScenarioRun =>
        /\ Ids(Last.members) = [ i \in 1..70 |-> i - 1 ]
        /\ Len(Searches(trace)) = 2
        /\ Searches(trace)[2].arg = 20

\* as the engine behaves: "" is queried with limit 70 and "a" with limit 20;
\* a backend that answers with at most `limit` records gives 40..59 for "a",
\* the result is the 60 records 0..59 and the other prefixes are queried with
\* limit 10; a backend that answers with its whole list gives 0..69 and the
\* sweep stops after "a"
C9_OverlapScenario ==
    ScenarioRun =>
        LET ss == Searches(trace)
        IN  /\ ss[1].pattern = 1 /\ ss[1].arg = 70
            /\ ss[2].pattern = 2 /\ ss[2].arg = 20
            /\ IF transport.honours_limit
               THEN /\ Ids(Last.members) = [ i \in 1..60 |-> i - 1 ]
                    /\ Len(ss) = Len(patterns)
                    /\ \A n \in 3..Len(ss) : ss[n].arg = 10
               ELSE /\ Ids(Last.members) = [ i \in 1..70 |-> i - 1 ]
                    /\ Len(ss) = 2

\* the scenario has run against the backend that honours the limit
C9_Witness == ScenarioRun /\ transport.honours_limit /\ count_ptr = 60

-----------------------------------------------------------------------------
(* C10  Zero cap.  A scrape with max_members = 0 on a connected engine      *)
(* returns success with no record, has called neither resolve nor a search *)
(* nor waited, and leaves the cache as it was.  The engine resolves the    *)
(* target before it looks at max_members.                                  *)

C10_ZeroCap ==
    [][ \A t \in Targets :
          (ENGINE.some /\ ENGINE.client /\ scraper_scrape_channel(t, 0, FALSE, FALSE))
              => /\ call' = Call("scrape", 1)
                 /\ count_ptr' = 0
                 /\ trace' = << >>
                 /\ ENGINE' = ENGINE
      ]_vars

-----------------------------------------------------------------------------
(* C11  Unresolvable target.  A scrape whose target does not resolve to a   *)
(* channel (no such name, or the lookup fails) returns 0 on every engine,  *)
(* has issued no participant search, and leaves the engine with its cache  *)
(* and dedup set, the caller's result pointer and count, and every         *)
(* allocation as they were.                                                *)

\* the targets that name no channel: an unknown name, and a lookup that fails
Unresolvable == { "ghost", "down" }

C11_UnresolvableTarget ==
    [][ \A t \in Unresolvable, m \in Caps :
          scraper_scrape_channel(t, m, FALSE, FALSE)
              => /\ call' = Call("scrape", 0)
                 /\ Searches(trace') = << >>
                 /\ Untouched
      ]_vars

\* a connected engine that holds records has tried to resolve the target,
\* in vain, and returned 0
C11_Witness ==
    /\ program = "lib" /\ proc = "running"
    /\ call = Call("scrape", 0)
    /\ ENGINE.some /\ ENGINE.client /\ ENGINE.dedup_set # { }
    /\ result_ptr # 0
    /\ trace = << Event("resolve", 0, 0, FALSE) >>

-----------------------------------------------------------------------------
(* C12  Double init.  init called while an engine exists returns (with 0   *)
(* or 1), the process keeps running, and the engine that exists is left    *)
(* as it was.  The engine's init installs the global tracing subscriber    *)
(* first, which panics when one is installed already: the call does not    *)
(* return.                                                                 *)

C12_DoubleInit ==
    [][ (ENGINE.some /\ scraper_init)
            => /\ proc' = "running"
               /\ call' \in { Call("init", 0), Call("init", 1) }
               /\ ENGINE' = ENGINE
      ]_vars

-----------------------------------------------------------------------------
(* C13  Argument errors at the boundary.  connect and scrape called with a  *)
(* null api_hash, session_file, target, result_ptr or count_ptr, or with a *)
(* text that is not valid UTF-8, return 0, the process keeps running and   *)
(* nothing changes.  The engine reads the texts and writes the results     *)
(* through the pointers without testing them for null.                     *)

Malformed == { BadUtf8, NullArg }

C13_ArgumentErrors ==
    [][ /\ \A c \in ConnectCalls :
              ((c[1] \in Malformed \/ c[2] \in Malformed)
                  /\ scraper_connect(c[1], c[2], c[3]))
                  => (call' = Call("connect", 0) /\ Untouched)
        /\ \A c \in ScrapeCalls :
              ((c[1] \in Malformed \/ c[3] \/ c[4])
                  /\ scraper_scrape_channel(c[1], c[2], c[3], c[4]))
                  => (call' = Call("scrape", 0) /\ Untouched)
      ]_vars

-----------------------------------------------------------------------------
(* C14  Result equals truncated snapshot.  Every successful scrape returns  *)
(* the records the cache has stored so far, in the order of their first    *)
(* insertion, truncated to max_members.  The engine returns the records    *)
(* the call itself inserted.                                               *)

\* the records the successful scrapes hist[n..] inserted, in order
RECURSIVE InsertedFrom(_)
InsertedFrom(n) ==
    IF n > Len(hist) THEN << >> ELSE hist[n].members \o InsertedFrom(n + 1)

\* CacheStore.snapshot(): each call returns what it inserted, in insertion
\* order, and a process has one engine, so the calls' results in sequence are
\* the cache in insertion order
Snapshot == InsertedFrom(1)

C14_ResultIsSnapshot ==
    ScrapeReturned =>
        /\ Range(Ids(Snapshot)) = DOMAIN ENGINE.members_cache
        /\ Ids(Last.members) = Take(Ids(Snapshot), Last.max_members)

-----------------------------------------------------------------------------
(* C16  Cache monotonicity, first seen wins.  Whatever call returns while   *)
(* an engine exists, other than destroy, the engine still exists and every *)
(* record of its cache is still stored under its id, the same record with  *)
(* the same texts: a later record with the same id never replaces it.  The *)
(* cache is keyed by id, so it holds one record per id.                    *)

C16_CacheMonotone ==
    [][ (program = "lib" /\ ENGINE.some /\ proc' = "running" /\ call'.op # "destroy")
            => /\ ENGINE'.some
               /\ \A id \in DOMAIN ENGINE.members_cache :
                    /\ id \in DOMAIN ENGINE'.members_cache
                    /\ ENGINE'.members_cache[id] = ENGINE.members_cache[id]
      ]_vars

\* a scrape has met again an id that an earlier call had stored
C16_Witness ==
    /\ ScrapeReturned
    /\ Last.pre # { }
    /\ \E n \in 1..Len(Encountered) : \E x \in Range(Encountered[n]) : x.id \in Last.pre

-----------------------------------------------------------------------------
(* C17  Pacing order.  Within one scrape every participant search is        *)
(* followed by a wait of the fixed spacing before anything else happens,   *)
(* so a wait lies between any two consecutive searches, after a search     *)
(* that failed as after one that succeeded.  The spacing is 2 seconds in   *)
(* the engine and 100 milliseconds in the binary.                          *)

Paced(tr, spacing) ==
    \A n \in 1..Len(tr) :
        tr[n].ev = "search" =>
            /\ n < Len(tr)
            /\ tr[n + 1] = Event("sleep", tr[n].pattern, spacing, TRUE)

C17_PacingOrder ==
    /\ (program = "lib" /\ proc = "running") => Paced(trace, SleepSecs)
    /\ CliScraped => Paced(cli.trace, CliSleepMillis)

\* a search failed, the engine waited, and searched the next prefix
C17_Witness ==
    /\ ScrapeReturned
    /\ \E n \in 1..Len(trace) :
         /\ n + 2 <= Len(trace)
         /\ trace[n].ev = "search" /\ ~trace[n].ok
         /\ trace[n + 1].ev = "sleep"
         /\ trace[n + 2].ev = "search"

-----------------------------------------------------------------------------
(* C19  Dedup set and cache agree.  Between boundary calls, the ids of      *)
(* dedup_set are the keys of members_cache.                                *)

C19_DedupMatchesCache ==
    (program = "lib" /\ proc = "running" /\ ENGINE.some)
        => ENGINE.dedup_set = DOMAIN ENGINE.members_cache

\* an engine that holds records, after a result has been freed
C19_Witness ==
    /\ program = "lib" /\ proc = "running"
    /\ call = Call("free", 1)
    /\ ENGINE.some /\ ENGINE.dedup_set # { }
    /\ freed # { }

-----------------------------------------------------------------------------
(* C15  Atomic try_insert under concurrency.  However the add_unique_member *)
(* calls of the workers interleave: once a call carrying an id has         *)
(* returned, exactly one of the returned calls carrying that id has        *)
(* returned true, the cache stores the record of that call under the id,   *)
(* and the id is in the dedup set; and while nobody holds the mutex the    *)
(* dedup set holds the keys of the cache.                                  *)

PoolReturned(id) == { c \in pool.returned : c.member.id = id }

C15_AtomicTryInsert ==
    program = "pool" =>
        /\ \A id \in PoolIds :
              PoolReturned(id) # { } =>
                  /\ Cardinality({ c \in PoolReturned(id) : c.ret }) = 1
                  /\ id \in pool.dedup_set
                  /\ id \in DOMAIN pool.members_cache
                  /\ \A c \in PoolReturned(id) :
                        c.ret <=> (pool.members_cache[id] = c.member)
        /\ pool.dedup_lock = 0 => pool.dedup_set = DOMAIN pool.members_cache

\* two workers have called with the same id: one call has returned true and
\* the other one false
C15_Witness ==
    /\ program = "pool"
    /\ \E c, d \in pool.returned :
         /\ c.member.id = d.member.id
         /\ c.member.by[1] # d.member.by[1]
         /\ c.ret /\ ~d.ret

-----------------------------------------------------------------------------
(* The statement-level scrape_channel and the one-step scrape_channel of    *)
(* the boundary are the same function: a call that has returned has        *)
(* produced the result, the engine, the allocations and the collaborator   *)
(* calls that scrape_channel yields for the engine the call found.         *)

SweepAgrees ==
    (program = "sweep" /\ sweep.pc = "returned") =>
        LET engine == [ NewEngine EXCEPT !.client = TRUE,
                                         !.dedup_set = sweep.pre.dedup_set,
                                         !.members_cache = sweep.pre.members_cache ]
            r == scrape_channel(engine, transport, sweep.target, sweep.max_members,
                                sweep.pre.addr)
        IN  /\ r.ok <=> (sweep.ret = 1)
            /\ r.trace = sweep.trace
            /\ r.members = sweep.members
            /\ r.addr = sweep.addr
            /\ r.engine.dedup_set = sweep.dedup_set
            /\ r.engine.members_cache = sweep.members_cache

-----------------------------------------------------------------------------
(* C18  Termination of the sweep.  A scrape call on a connected engine      *)
(* returns; at every moment of a call on a target that resolves, the       *)
(* prefixes queried so far are the first ones of the list, in its order    *)
(* and each once, and no query was issued with the cap reached; such a     *)
(* call returns success, and when it returns fewer than max_members        *)
(* records it has queried all the prefixes.  The binary likewise.          *)

\* the searches of trace tr are those of the first prefixes, in order, and
\* each was issued below the cap
InListOrder(tr) ==
    \A n \in 1..Len(Searches(tr)) :
        Searches(tr)[n].pattern = n /\ Searches(tr)[n].arg >= 1

SweepOrder ==
    /\ (program = "sweep" /\ resolve_username(sweep.target) = "chat") =>
          /\ InListOrder(sweep.trace)
          /\ sweep.pc = "returned" =>
                /\ sweep.ret = 1
                /\ Len(sweep.members) < sweep.max_members
                      => Len(Searches(sweep.trace)) = Len(patterns)
    /\ CliScraped =>
          /\ InListOrder(cli.trace)
          /\ Len(cli.members) < cli.max_members
                => Len(Searches(cli.trace)) = Len(cli_patterns)

SweepRunning ==
    \/ program = "sweep" /\ sweep.pc \notin { "idle", "returned" }
    \/ program = "cli" /\ cli.pc = "start"

SweepReturned ==
    \/ program = "sweep" /\ sweep.pc = "returned"
    \/ CliScraped

C18_SweepTerminates == []SweepOrder /\ (SweepRunning ~> SweepReturned)

\* a call has run out of prefixes below the cap and returned what it had
C18_Witness ==
    /\ program = "sweep" /\ sweep.pc = "returned" /\ sweep.ret = 1
    /\ sweep.members # << >>
    /\ Len(sweep.members) < sweep.max_members
    /\ Len(Searches(sweep.trace)) = Len(patterns)

-----------------------------------------------------------------------------
(* C20  No counter overflow in the sweep.  At every moment of a scrape the  *)
(* count of unique records is at most max_members, and every query was     *)
(* issued with a limit, max_members - scraped in u32, between 1 and        *)
(* max_members: the difference never wraps.  The binary likewise.          *)

LimitsInRange(tr, max_members) ==
    \A n \in 1..Len(tr) :
        tr[n].ev = "search" => (1 <= tr[n].arg /\ tr[n].arg <= max_members)

C20_NoCounterOverflow ==
    /\ program = "sweep" =>
          /\ sweep.scraped <= sweep.max_members
          /\ sweep.scraped = Len(sweep.members)
          /\ LimitsInRange(sweep.trace, sweep.max_members)
    /\ CliScraped =>
          /\ Len(cli.members) <= cli.max_members
          /\ LimitsInRange(cli.trace, cli.max_members)

\* a call has filled the cap, its last query asking for the records that
\* were missing
C20_Witness ==
    /\ program = "sweep" /\ sweep.pc = "returned" /\ sweep.ret = 1
    /\ sweep.scraped = sweep.max_members
    /\ \E n \in 1..Len(sweep.trace) :
         /\ sweep.trace[n].ev = "search"
         /\ sweep.trace[n].arg < sweep.max_members

====
